---- MODULE Spec2Model ----
(***************************************************************************)
(* A model of the bmfont crate: the section splitter (sections.rs), the    *)
(* component extraction (utils.rs), the sorted tables built by BMFont::new *)
(* and the lazy layout iterators of lib.rs.                                *)
(*                                                                         *)
(* A text is a sequence of Unicode scalar values.  Indices and cursors are *)
(* 0-based as in the source; a sequence s is read at s[idx + 1].           *)
(* Two build switches are part of the state: parse_error (the cargo        *)
(* feature "parse-error", strict mode) and overflow_checks (a build with   *)
(* integer overflow checks panics where a build without them wraps).       *)
(***************************************************************************)
EXTENDS Integers, Sequences, FiniteSets, TLC

VARIABLES
    font,             \* the BMFont: base_height, line_height, characters, kerning_values, orientation
    text,             \* the &str handed to parse
    parse_error,      \* cfg(feature = "parse-error")
    overflow_checks,  \* the build panics on integer overflow
    status,           \* "start" | "iter" | "done" | "error" | "panic"
    iter,             \* the ParseIter
    out,              \* the CharPositions returned by next() so far
    ghost,            \* per element of out: the text index it came from and the kerning applied
    err,              \* the StringParseError of a failed parse
    content,          \* the lines of the font definition read by Sections::new
    sections,         \* the result of Sections::new
    arg,              \* the arguments of a call of extract_component_value
    extracted,        \* its result
    built,            \* the outcome of BMFont::new on content
    pager,            \* the PageIter of the latest pages() and what it has yielded
    page_line,        \* the line handed to a call of Page::new
    new_page,         \* its result
    rect,             \* a Rect, and whether the build checks integer overflow
    max,              \* the outcomes of max_x and max_y on it
    kerning_call,     \* a call of find_kerning_values and the KerningIter it returned
    other             \* a second ParseIter over the same font

layoutVars == <<font, text, parse_error, overflow_checks, status, iter, out, ghost, err>>

sectionVars == <<content, sections>>

extractVars == <<arg, extracted>>

newVars == <<built, pager>>

pageVars == <<page_line, new_page>>

rectVars == <<rect, max>>

vars == <<layoutVars, sectionVars, extractVars, newVars, pageVars, rectVars, kerning_call, other>>

\* ------------------------------------------------------------------ bounds

MaxTextLen == 3

\* Lines of a font definition after its common line.
MaxTailLen == 6

\* Characters of a component token.
MaxTokenLen == 4

\* --------------------------------------------------------------- constants

NewLine == 10

\* The first scalar value that needs two UTF-16 units.
Utf16Pair == 65536

Less == "Less"

Equal == "Equal"

Greater == "Greater"

\* Ordering of two integers, as Ord::cmp.
Cmp(a, b) == IF a < b THEN Less ELSE IF a > b THEN Greater ELSE Equal

\* ------------------------------------------------------------ binary search

\* The loop of slice::binary_search_by when no probe compares Equal: the
\* index where the search ends.
RECURSIVE SearchLoop(_, _, _)
SearchLoop(cmps, left, right) ==
    IF left >= right THEN left
    ELSE LET mid == left + ((right - left) \div 2)
         IN IF cmps[mid + 1] = Less THEN SearchLoop(cmps, mid + 1, right)
            ELSE SearchLoop(cmps, left, mid)

\* slice::binary_search_by over the orderings of the probes: every result the
\* library may return.  With several Equal probes any of them may be returned.
BinarySearchBy(cmps) ==
    LET hits == {i \in 0..(Len(cmps) - 1) : cmps[i + 1] = Equal}
    IN IF hits # {} THEN {[ok |-> TRUE, idx |-> i] : i \in hits}
       ELSE {[ok |-> FALSE, idx |-> SearchLoop(cmps, 0, Len(cmps))]}

\* ------------------------------------------------------------- font tables

\* A glyph insertion where a later declaration of an id replaces the entry.
InsertCharReplaces(characters, char) ==
    LET r == CHOOSE r \in BinarySearchBy([i \in 1..Len(characters) |-> Cmp(characters[i].id, char.id)]) : TRUE
    IN IF r.ok THEN [characters EXCEPT ![r.idx + 1] = char]
       ELSE SubSeq(characters, 1, r.idx) \o <<char>> \o SubSeq(characters, r.idx + 1, Len(characters))

\* BMFont::new, the glyph loop body: insert unless the id is already there.
InsertChar(characters, char) ==
    LET r == CHOOSE r \in BinarySearchBy([i \in 1..Len(characters) |-> Cmp(characters[i].id, char.id)]) : TRUE
    IN IF r.ok THEN characters
       ELSE SubSeq(characters, 1, r.idx) \o <<char>> \o SubSeq(characters, r.idx + 1, Len(characters))

RECURSIVE BuildCharacters(_, _)
BuildCharacters(char_sections, characters) ==
    IF char_sections = <<>> THEN characters
    ELSE BuildCharacters(Tail(char_sections), InsertChar(characters, Head(char_sections)))

\* BMFont::new, the kerning loop body: insert at the index the search returns,
\* found or not.  The set of tables the insertion may produce.
InsertKerning(kerning_values, kerning) ==
    {SubSeq(kerning_values, 1, r.idx) \o <<kerning>> \o SubSeq(kerning_values, r.idx + 1, Len(kerning_values)) :
        r \in BinarySearchBy([i \in 1..Len(kerning_values) |-> Cmp(kerning_values[i].first_char_id, kerning.first_char_id)])}

RECURSIVE BuildKerningValues(_, _)
BuildKerningValues(kerning_sections, kerning_values) ==
    IF kerning_sections = <<>> THEN {kerning_values}
    ELSE UNION {BuildKerningValues(Tail(kerning_sections), t) : t \in InsertKerning(kerning_values, Head(kerning_sections))}

\* ------------------------------------------------------------------ layout

\* char::len_utf16
LenUtf16(c) == IF c >= Utf16Pair THEN 2 ELSE 1

\* char::encode_utf16, the first unit written to temp.
FirstUtf16Unit(c) == IF c >= Utf16Pair THEN 55296 + ((c - Utf16Pair) \div 1024) ELSE c

\* self.characters.binary_search_by(|probe| probe.id.cmp(&char_id))
FindChar(characters, char_id) ==
    CHOOSE r \in BinarySearchBy([i \in 1..Len(characters) |-> Cmp(characters[i].id, char_id)]) : TRUE

\* BMFont::parse_lines, the validation loop of the parse-error feature from
\* text index i on: the two lists, in the order the characters are met.
RECURSIVE ValidateFrom(_, _, _, _, _)
ValidateFrom(characters, s, i, missing_characters, unsupported_characters) ==
    IF i >= Len(s) THEN [missing_characters |-> missing_characters, unsupported_characters |-> unsupported_characters]
    ELSE LET c == s[i + 1]
         IN IF c = NewLine THEN ValidateFrom(characters, s, i + 1, missing_characters, unsupported_characters)
            ELSE IF LenUtf16(c) # 1
                 THEN ValidateFrom(characters, s, i + 1, missing_characters, Append(unsupported_characters, c))
            ELSE IF FindChar(characters, FirstUtf16Unit(c)).ok
                 THEN ValidateFrom(characters, s, i + 1, missing_characters, unsupported_characters)
            ELSE ValidateFrom(characters, s, i + 1, Append(missing_characters, c), unsupported_characters)

\* A parse_lines that fails on missing characters only.
ParseLinesMissingOnly(characters, s, strict) ==
    LET v == ValidateFrom(characters, s, 0, <<>>, <<>>)
    IN IF strict /\ v.missing_characters # <<>>
       THEN [ok |-> FALSE, error |-> v]
       ELSE [ok |-> TRUE, error |-> [missing_characters |-> <<>>, unsupported_characters |-> <<>>]]

\* BMFont::parse_lines: the error of strict mode, or none.  The two Option<Vec>
\* are Some exactly when non-empty.
ParseLines(characters, s, strict) ==
    LET v == ValidateFrom(characters, s, 0, <<>>, <<>>)
    IN IF strict /\ (v.missing_characters # <<>> \/ v.unsupported_characters # <<>>)
       THEN [ok |-> FALSE, error |-> v]
       ELSE [ok |-> TRUE, error |-> [missing_characters |-> <<>>, unsupported_characters |-> <<>>]]

NoChar == [id |-> 0, x |-> 0, y |-> 0, width |-> 0, height |-> 0, xoffset |-> 0, yoffset |-> 0, xadvance |-> 0, page_index |-> 0]

\* A CharIter::next that ends the line at a character without a glyph.
RECURSIVE CharIterNextEndsAtMissing(_, _, _, _)
CharIterNextEndsAtMissing(characters, s, pos, strict) ==
    IF pos >= Len(s) THEN [ret |-> "none", pos |-> pos, char |-> NoChar]
    ELSE LET chr == s[pos + 1]
         IN IF chr = NewLine THEN [ret |-> "none", pos |-> pos + 1, char |-> NoChar]
            ELSE IF LenUtf16(chr) # 1 THEN CharIterNextEndsAtMissing(characters, s, pos + 1, strict)
            ELSE LET char_idx == FindChar(characters, FirstUtf16Unit(chr))
                 IN IF ~char_idx.ok THEN [ret |-> "none", pos |-> pos + 1, char |-> NoChar]
                    ELSE [ret |-> "some", pos |-> pos + 1, char |-> characters[char_idx.idx + 1]]

\* The cursor after the characters from pos on that are not '\n' and have no glyph.
RECURSIVE SkipUnresolved(_, _, _)
SkipUnresolved(characters, s, pos) ==
    IF pos < Len(s) /\ s[pos + 1] # NewLine
       /\ (LenUtf16(s[pos + 1]) # 1 \/ ~FindChar(characters, FirstUtf16Unit(s[pos + 1])).ok)
    THEN SkipUnresolved(characters, s, pos + 1)
    ELSE pos

\* A CharIter::next that, having found a glyph, reads on over the characters
\* without a glyph that follow it.
RECURSIVE CharIterNextReadsAhead(_, _, _, _)
CharIterNextReadsAhead(characters, s, pos, strict) ==
    IF pos >= Len(s) THEN [ret |-> "none", pos |-> pos, char |-> NoChar]
    ELSE LET chr == s[pos + 1]
         IN IF chr = NewLine THEN [ret |-> "none", pos |-> pos + 1, char |-> NoChar]
            ELSE IF LenUtf16(chr) # 1 THEN CharIterNextReadsAhead(characters, s, pos + 1, strict)
            ELSE LET char_idx == FindChar(characters, FirstUtf16Unit(chr))
                 IN IF ~strict /\ ~char_idx.ok THEN CharIterNextReadsAhead(characters, s, pos + 1, strict)
                    ELSE IF ~char_idx.ok THEN [ret |-> "panic", pos |-> pos + 1, char |-> NoChar]
                    ELSE [ret |-> "some", pos |-> SkipUnresolved(characters, s, pos + 1), char |-> characters[char_idx.idx + 1]]

\* CharIter::next from cursor pos: the glyph found (or None, or the panic of
\* unwrap on a failed lookup) and the cursor after the characters consumed.
RECURSIVE CharIterNext(_, _, _, _)
CharIterNext(characters, s, pos, strict) ==
    IF pos >= Len(s) THEN [ret |-> "none", pos |-> pos, char |-> NoChar]
    ELSE LET chr == s[pos + 1]
         IN IF chr = NewLine THEN [ret |-> "none", pos |-> pos + 1, char |-> NoChar]
            ELSE IF LenUtf16(chr) # 1 THEN CharIterNext(characters, s, pos + 1, strict)
            ELSE LET char_idx == FindChar(characters, FirstUtf16Unit(chr))
                 IN IF ~strict /\ ~char_idx.ok THEN CharIterNext(characters, s, pos + 1, strict)
                    ELSE IF ~char_idx.ok THEN [ret |-> "panic", pos |-> pos + 1, char |-> NoChar]
                    ELSE [ret |-> "some", pos |-> pos + 1, char |-> characters[char_idx.idx + 1]]

\* KerningIter::empty
KerningIterEmpty(values) == [first_char_id |-> 0, idx |-> Len(values)]

\* (probe.first_char_id << 1).cmp(&needle) for needle = (first_char_id << 1) - 1
\* in u32.  For first_char_id = 0 a build without overflow checks wraps the
\* needle to 2^32 - 1, which is odd and above every shifted probe.
KerningProbeCmp(probe, first_char_id) ==
    IF first_char_id = 0 THEN Less
    ELSE Cmp(2 * probe.first_char_id, (2 * first_char_id) - 1)

\* BMFont::find_kerning_values: the KerningIter, or the panic of the
\* subtraction in a build with overflow checks.
FindKerningValues(values, first_char_id, checks) ==
    IF first_char_id = 0 /\ checks THEN [panic |-> TRUE, first_char_id |-> first_char_id, idx |-> 0]
    ELSE LET r == CHOOSE r \in BinarySearchBy([i \in 1..Len(values) |-> KerningProbeCmp(values[i], first_char_id)]) : TRUE
         IN [panic |-> FALSE, first_char_id |-> first_char_id, idx |-> r.idx]

\* KerningIter::next
KerningIterNext(values, self) ==
    IF self.idx < Len(values) /\ values[self.idx + 1].first_char_id = self.first_char_id
    THEN [ret |-> "some", value |-> values[self.idx + 1], self |-> [self EXCEPT !.idx = self.idx + 1]]
    ELSE [ret |-> "none", value |-> [first_char_id |-> 0, second_char_id |-> 0, value |-> 0], self |-> self]

\* self.kerning_values.find(|k| k.second_char_id == char.id).map(|k| k.value).unwrap_or(0):
\* KerningIter::next is called until it yields the wanted entry or ends.
RECURSIVE KerningFind(_, _, _)
KerningFind(values, kiter, second_char_id) ==
    IF kiter.idx < Len(values) /\ values[kiter.idx + 1].first_char_id = kiter.first_char_id
    THEN IF values[kiter.idx + 1].second_char_id = second_char_id
         THEN values[kiter.idx + 1].value
         ELSE KerningFind(values, [kiter EXCEPT !.idx = kiter.idx + 1], second_char_id)
    ELSE 0

\* ParseLineIter::next, screen_x.
ScreenX(x, char, kerning_value) == x + char.xoffset + kerning_value

\* ParseLineIter::next, screen_y.
ScreenY(f, y, char) ==
    IF f.ordinate_orientation = "BottomToTop"
    THEN y + f.base_height - char.yoffset - char.height
    ELSE y + char.yoffset

\* A cursor advance that leaves the kerning value out.
AdvanceXWithoutKerning(x, char, kerning_value) == x + char.xadvance

\* ParseLineIter::next, self.x += ...
AdvanceX(x, char, kerning_value) == x + char.xadvance + kerning_value

\* ParseLineIter::next, the CharPosition built for a glyph.
MakeCharPosition(f, x, y, char, kerning_value) ==
    [page_rect |-> [x |-> char.x, y |-> char.y, width |-> char.width, height |-> char.height],
     screen_rect |-> [x |-> ScreenX(x, char, kerning_value), y |-> ScreenY(f, y, char),
                      width |-> char.width, height |-> char.height],
     page_index |-> char.page_index]

NoCharPosition == MakeCharPosition([ordinate_orientation |-> "TopToBottom", base_height |-> 0], 0, 0, NoChar, 0)

NoLine == [chars |-> 0, kerning_values |-> [first_char_id |-> 0, idx |-> 0], x |-> 0, y |-> 0]

\* ParseLineIter::new
ParseLineIterNew(f, chars, y) ==
    [chars |-> chars, kerning_values |-> KerningIterEmpty(f.kerning_values), x |-> 0, y |-> y]

\* ParseLineIter::next
ParseLineIterNext(f, s, strict, checks, self) ==
    LET c == CharIterNext(f.characters, s, self.chars, strict)
        kerning_value == KerningFind(f.kerning_values, self.kerning_values, c.char.id)
        found == FindKerningValues(f.kerning_values, c.char.id, checks)
    IN CASE c.ret = "some" /\ ~found.panic ->
              [ret |-> "some",
               item |-> MakeCharPosition(f, self.x, self.y, c.char, kerning_value),
               src |-> c.pos - 1, kerning |-> kerning_value, id |-> c.char.id,
               self |-> [chars |-> c.pos,
                         kerning_values |-> [first_char_id |-> found.first_char_id, idx |-> found.idx],
                         x |-> AdvanceX(self.x, c.char, kerning_value),
                         y |-> self.y]]
         [] c.ret = "none" ->
              [ret |-> "none", item |-> NoCharPosition, src |-> 0, kerning |-> 0, id |-> 0,
               self |-> [self EXCEPT !.chars = c.pos]]
         [] OTHER ->
              [ret |-> "panic", item |-> NoCharPosition, src |-> 0, kerning |-> 0, id |-> 0,
               self |-> [self EXCEPT !.chars = c.pos]]

\* A line accumulator that ignores the orientation.
AdvanceYIgnoresOrientation(f, y) == y + f.line_height

\* ParseIter::next, the line accumulator after a line.
AdvanceY(f, y) ==
    IF f.ordinate_orientation = "TopToBottom" THEN y + f.line_height ELSE y - f.line_height

\* ParseIter::new over the LineIter of parse_lines.  lines_text is the cursor
\* of LineIter.text while it is Some; line is the ParseLineIter while Some.
ParseIterNew ==
    [lines_text_some |-> TRUE, lines_text |-> 0, line_some |-> FALSE, line |-> NoLine, y |-> 0]

\* A LineIter::next that ends the iteration at an empty line.
LineIterNextStopsAtEmptyLine(s, text_some, pos) ==
    IF ~text_some THEN "panic"
    ELSE IF pos >= Len(s) \/ s[pos + 1] = NewLine THEN "none"
    ELSE "some"

\* LineIter::next on the cursor of LineIter.text: the panic of unwrap when the
\* text was taken, None at the end of the text, else a CharIter that takes it.
LineIterNext(s, text_some, pos) ==
    IF ~text_some THEN "panic"
    ELSE IF pos >= Len(s) THEN "none"
    ELSE "some"

\* A ParseIter::next that does not put the cursor back into LineIter.text at
\* the end of a line.
RECURSIVE ParseIterNextKeepsCursor(_, _, _, _, _)
ParseIterNextKeepsCursor(f, s, strict, checks, self) ==
    LET chars == IF self.line_some THEN "some"
                 ELSE LineIterNext(s, self.lines_text_some, self.lines_text)
    IN IF chars # "some"
       THEN [ret |-> chars, item |-> NoCharPosition, src |-> 0, kerning |-> 0, id |-> 0, self |-> self]
       ELSE LET started == IF self.line_some THEN self
                           ELSE [self EXCEPT !.line_some = TRUE,
                                             !.line = ParseLineIterNew(f, self.lines_text, self.y),
                                             !.lines_text_some = FALSE,
                                             !.lines_text = 0]
                r == ParseLineIterNext(f, s, strict, checks, started.line)
            IN CASE r.ret = "some" -> [r EXCEPT !.self = [started EXCEPT !.line = r.self]]
                 [] r.ret = "panic" -> [r EXCEPT !.self = [started EXCEPT !.line = r.self]]
                 [] OTHER ->
                      ParseIterNextKeepsCursor(f, s, strict, checks,
                          [lines_text_some |-> FALSE, lines_text |-> 0,
                           line_some |-> FALSE, line |-> NoLine,
                           y |-> AdvanceY(f, started.y)])

\* ParseIter::next
RECURSIVE ParseIterNext(_, _, _, _, _)
ParseIterNext(f, s, strict, checks, self) ==
    LET chars == IF self.line_some THEN "some"
                 ELSE LineIterNext(s, self.lines_text_some, self.lines_text)
    IN IF chars # "some"
       THEN [ret |-> chars, item |-> NoCharPosition, src |-> 0, kerning |-> 0, id |-> 0, self |-> self]
       ELSE LET started == IF self.line_some THEN self
                           ELSE [self EXCEPT !.line_some = TRUE,
                                             !.line = ParseLineIterNew(f, self.lines_text, self.y),
                                             !.lines_text_some = FALSE,
                                             !.lines_text = 0]
                r == ParseLineIterNext(f, s, strict, checks, started.line)
            IN CASE r.ret = "some" -> [r EXCEPT !.self = [started EXCEPT !.line = r.self]]
                 [] r.ret = "panic" -> [r EXCEPT !.self = [started EXCEPT !.line = r.self]]
                 [] OTHER ->
                      ParseIterNext(f, s, strict, checks,
                          [lines_text_some |-> TRUE, lines_text |-> r.self.chars,
                           line_some |-> FALSE, line |-> NoLine,
                           y |-> AdvanceY(f, started.y)])

\* --------------------------------------------------------- section splitter

\* The first tokens of the lines explored, as character sequences.
TagInfo == <<"i", "n", "f", "o">>

TagCommon == <<"c", "o", "m", "m", "o", "n">>

TagPage == <<"p", "a", "g", "e">>

TagChars == <<"c", "h", "a", "r", "s">>

TagChar == <<"c", "h", "a", "r">>

TagKernings == <<"k", "e", "r", "n", "i", "n", "g", "s">>

TagKerning == <<"k", "e", "r", "n", "i", "n", "g">>

TagOther == <<"x">>

\* str::starts_with for a line given as its whitespace-separated tokens (a
\* line does not begin with whitespace) and a prefix without whitespace.
StartsWith(line, prefix) ==
    /\ line # <<>>
    /\ Len(line[1]) >= Len(prefix)
    /\ SubSeq(line[1], 1, Len(prefix)) = prefix

\* Iterator::skip_while(|l| !l.starts_with(prefix))
RECURSIVE SkipWhileNot(_, _)
SkipWhileNot(lines, prefix) ==
    IF lines = <<>> \/ StartsWith(Head(lines), prefix) THEN lines
    ELSE SkipWhileNot(Tail(lines), prefix)

\* Iterator::take_while(|l| l.starts_with(prefix))
RECURSIVE TakeWhile(_, _)
TakeWhile(lines, prefix) ==
    IF lines = <<>> \/ ~StartsWith(Head(lines), prefix) THEN <<>>
    ELSE <<Head(lines)>> \o TakeWhile(Tail(lines), prefix)

\* Iterator::skip(n)
Skip(lines, n) == SubSeq(lines, n + 1, Len(lines))

NoSections ==
    [ret |-> "none", section |-> <<>>, common_section |-> <<>>,
     page_sections |-> <<>>, char_sections |-> <<>>, kerning_sections |-> <<>>]

\* Err(ConfigParseError::MissingSection(name))
MissingSection(name) == [NoSections EXCEPT !.ret = "err", !.section = name]

\* A page group of every later line that starts with "page".
PageSectionsAnywhere(lines) == SelectSeq(lines, LAMBDA l : StartsWith(l, TagPage))

\* Sections::new, the page group of the lines from the first page line on.
PageSections(lines) == TakeWhile(lines, TagPage)

\* A kerning group that takes the line after the char run as its first line.
KerningSectionsWithoutMarker(lines) == TakeWhile(lines, TagKerning)

\* Sections::new, the kerning group of the lines after the char run.
KerningSections(lines) ==
    IF lines # <<>> THEN TakeWhile(Tail(lines), TagKerning) ELSE <<>>

\* Sections::new on the lines of the content.
SectionsNew(all) ==
    IF ~(all # <<>> /\ StartsWith(all[1], TagInfo)) THEN MissingSection(TagInfo)
    ELSE IF ~(Len(all) >= 2 /\ StartsWith(all[2], TagCommon)) THEN MissingSection(TagCommon)
    ELSE LET lines == SkipWhileNot(Skip(all, 2), TagPage)
             page_sections == PageSections(lines)
             after_pages == Skip(lines, Len(page_sections))
             char_sections == TakeWhile(Tail(after_pages), TagChar)
             after_chars == Skip(Tail(after_pages), Len(char_sections))
         IN IF page_sections = <<>> THEN MissingSection(TagPage)
            ELSE IF after_pages = <<>> THEN [NoSections EXCEPT !.ret = "panic"]
            ELSE IF char_sections = <<>> THEN MissingSection(TagChar)
            ELSE [ret |-> "ok", section |-> <<>>, common_section |-> all[2],
                  page_sections |-> page_sections, char_sections |-> char_sections,
                  kerning_sections |-> KerningSections(after_chars)]

\* --------------------------------------------------- component extraction

Digits == <<"0", "1", "2", "3", "4", "5", "6", "7", "8", "9">>

IsDigit(ch) == \E d \in 1..10 : Digits[d] = ch

\* char::to_digit(10)
DigitOf(ch) == (CHOOSE d \in 1..10 : Digits[d] = ch) - 1

\* The checked accumulation result * 10 + digit of a 32-bit unsigned value,
\* held as two 16-bit halves; over is set once the value has passed 2^32 - 1.
RECURSIVE ParseDigits(_, _)
ParseDigits(digits, acc) ==
    IF digits = <<>> \/ acc.over THEN acc
    ELSE LET lo == (acc.lo * 10) + DigitOf(Head(digits))
             hi == (acc.hi * 10) + (lo \div 65536)
         IN ParseDigits(Tail(digits), [over |-> hi >= 65536, hi |-> hi, lo |-> lo % 65536])

NotConverted == [ok |-> FALSE, ty |-> "", hi |-> 0, lo |-> 0, int |-> 0, str |-> <<>>]

\* <u32 as FromStr>::from_str: an optional '+', then digits, at most 2^32 - 1.
U32FromStr(value) ==
    LET digits == IF value # <<>> /\ Head(value) = "+" THEN Tail(value) ELSE value
        n == ParseDigits(digits, [over |-> FALSE, hi |-> 0, lo |-> 0])
    IN IF digits = <<>> \/ (\E i \in 1..Len(digits) : ~IsDigit(digits[i])) \/ n.over
       THEN NotConverted
       ELSE [NotConverted EXCEPT !.ok = TRUE, !.ty = "u32", !.hi = n.hi, !.lo = n.lo]

\* <i32 as FromStr>::from_str: an optional sign, then digits, within
\* -2^31 .. 2^31 - 1.
I32FromStr(value) ==
    LET signed == value # <<>> /\ Head(value) \in {"+", "-"}
        negative == value # <<>> /\ Head(value) = "-"
        digits == IF signed THEN Tail(value) ELSE value
        n == ParseDigits(digits, [over |-> FALSE, hi |-> 0, lo |-> 0])
        fits == ~n.over /\ (n.hi < 32768 \/ (negative /\ n.hi = 32768 /\ n.lo = 0))
    IN IF digits = <<>> \/ (\E i \in 1..Len(digits) : ~IsDigit(digits[i])) \/ ~fits
       THEN NotConverted
       ELSE [NotConverted EXCEPT !.ok = TRUE, !.ty = "i32",
                                 !.int = IF negative THEN ((0 - n.hi) * 65536) - n.lo
                                         ELSE (n.hi * 65536) + n.lo]

\* <String as FromStr>::from_str never fails.
StringFromStr(value) == [NotConverted EXCEPT !.ok = TRUE, !.ty = "String", !.str = value]

\* T::from_str(value) for the target types of the record parsers.
FromStr(ty, value) ==
    CASE ty = "u32" -> U32FromStr(value)
      [] ty = "i32" -> I32FromStr(value)
      [] OTHER -> StringFromStr(value)

\* s.splitn(2, '=').collect::<Vec<_>>()
SplitN2(s) ==
    LET eqs == {i \in 1..Len(s) : s[i] = "="}
    IN IF eqs = {} THEN <<s>>
       ELSE LET i == CHOOSE i \in eqs : \A j \in eqs : i <= j
            IN <<SubSeq(s, 1, i - 1), SubSeq(s, i + 1, Len(s))>>

NoResult ==
    [ret |-> "none", section |-> "", component |-> <<>>, actual_component |-> <<>>,
     value |-> <<>>, converted |-> NotConverted]

\* utils::unwrap_string: the error of an absent token, or none.
UnwrapString(s_some, section, component) ==
    IF s_some THEN NoResult
    ELSE [NoResult EXCEPT !.ret = "MissingComponent", !.section = section, !.component = component]

\* utils::check_string_parts: the error of a token without '=', or none.
CheckStringParts(string_parts, section, component) ==
    IF Len(string_parts) = 2 THEN NoResult
    ELSE [NoResult EXCEPT !.ret = "InvalidComponentValue", !.section = section,
                          !.component = component, !.value = <<>>]

\* utils::extract_value: the error of another key, or none (the value is
\* string_parts[1] of the source, the second part).
ExtractValue(string_parts, section, component) ==
    IF string_parts[1] = component THEN NoResult
    ELSE [NoResult EXCEPT !.ret = "InvalidComponent", !.section = section,
                          !.component = component, !.actual_component = string_parts[1]]

\* An extract_component_value that converts the value before it checks the key.
ExtractComponentValueConvertsFirst(s_some, s, section, component, ty) ==
    LET string_parts == SplitN2(s)
    IN IF UnwrapString(s_some, section, component).ret # "none"
       THEN UnwrapString(s_some, section, component)
       ELSE IF CheckStringParts(string_parts, section, component).ret # "none"
       THEN CheckStringParts(string_parts, section, component)
       ELSE IF ~FromStr(ty, string_parts[2]).ok
       THEN [NoResult EXCEPT !.ret = "InvalidComponentValue", !.section = section,
                             !.component = component, !.value = string_parts[2]]
       ELSE IF ExtractValue(string_parts, section, component).ret # "none"
       THEN ExtractValue(string_parts, section, component)
       ELSE [NoResult EXCEPT !.ret = "ok", !.converted = FromStr(ty, string_parts[2])]

\* utils::extract_component_value::<T>
ExtractComponentValue(s_some, s, section, component, ty) ==
    LET string_parts == SplitN2(s)
    IN IF UnwrapString(s_some, section, component).ret # "none"
       THEN UnwrapString(s_some, section, component)
       ELSE IF CheckStringParts(string_parts, section, component).ret # "none"
       THEN CheckStringParts(string_parts, section, component)
       ELSE IF ExtractValue(string_parts, section, component).ret # "none"
       THEN ExtractValue(string_parts, section, component)
       ELSE IF FromStr(ty, string_parts[2]).ok
       THEN [NoResult EXCEPT !.ret = "ok", !.converted = FromStr(ty, string_parts[2])]
       ELSE [NoResult EXCEPT !.ret = "InvalidComponentValue", !.section = section,
                             !.component = component, !.value = string_parts[2]]

\* ---------------------------------------------------------- record parsers

NameLineHeight == <<"l", "i", "n", "e", "H", "e", "i", "g", "h", "t">>

NameBase == <<"b", "a", "s", "e">>

NameId == <<"i", "d">>

NameFile == <<"f", "i", "l", "e">>

\* The components of a char line, in the order Char::new reads them.
CharComponents ==
    <<NameId, <<"x">>, <<"y">>, <<"w", "i", "d", "t", "h">>, <<"h", "e", "i", "g", "h", "t">>,
      <<"x", "o", "f", "f", "s", "e", "t">>, <<"y", "o", "f", "f", "s", "e", "t">>,
      <<"x", "a", "d", "v", "a", "n", "c", "e">>, TagPage>>

CharTypes == <<"u32", "u32", "u32", "u32", "u32", "i32", "i32", "i32", "u32">>

\* The components of a kerning line, in the order KerningValue::new reads them.
KerningComponents == <<<<"f", "i", "r", "s", "t">>, <<"s", "e", "c", "o", "n", "d">>, <<"a", "m", "o", "u", "n", "t">>>>

KerningTypes == <<"u32", "u32", "i32">>

PageComponents == <<NameId, NameFile>>

PageTypes == <<"u32", "String">>

Quote == "\""

\* components.next() of split_whitespace is Some for the i-th token of the line.
TokenSome(line, i) == i <= Len(line)

TokenAt(line, i) == IF i <= Len(line) THEN line[i] ELSE <<>>

\* The integer of a converted u32 (the values explored are below 2^31).
U32Of(converted) == (converted.hi * 65536) + converted.lo

\* A run of try!(extract_component_value(components.next(), name)) from the
\* i-th component on: the values converted, or the first error.
RECURSIVE ExtractComponents(_, _, _, _, _, _)
ExtractComponents(line, section, names, types, i, values) ==
    IF i > Len(names) THEN [ret |-> "ok", error |-> NoResult, values |-> values]
    ELSE LET Try(r) ==
                 IF r.ret # "ok" THEN [ret |-> "err", error |-> r, values |-> values]
                 ELSE ExtractComponents(line, section, names, types, i + 1, Append(values, r.converted))
         IN Try(ExtractComponentValue(TokenSome(line, i + 1), TokenAt(line, i + 1), section, names[i], types[i]))

\* str::trim_matches(ch): every leading and every trailing ch is removed.
RECURSIVE TrimMatches(_, _)
TrimMatches(s, ch) ==
    IF s # <<>> /\ Head(s) = ch THEN TrimMatches(Tail(s), ch)
    ELSE IF s # <<>> /\ s[Len(s)] = ch THEN TrimMatches(SubSeq(s, 1, Len(s) - 1), ch)
    ELSE s

NoPage == [id |-> 0, file |-> <<>>]

\* The result of a record parser: ret is "ok", "err" (with error) or "panic"
\* (with abort, the failed expect or assert_eq).
NoRecord == [ret |-> "ok", abort |-> "", error |-> NoResult, page |-> NoPage, char |-> NoChar, kerning |-> [first_char_id |-> 0, second_char_id |-> 0, value |-> 0]]

\* The section-tag precondition of the record parsers: expect on the first
\* token, then assert_eq with SECTION_NAME.
SectionNameAbort(line, tag) ==
    IF line = <<>> THEN "expect" ELSE IF line[1] # tag THEN "assert_eq" ELSE ""

\* Page::new
PageNew(line) ==
    LET Decoded(r) ==
            IF r.ret # "ok" THEN [NoRecord EXCEPT !.ret = "err", !.error = r.error]
            ELSE [NoRecord EXCEPT !.page = [id |-> U32Of(r.values[1]), file |-> TrimMatches(r.values[2].str, Quote)]]
    IN IF SectionNameAbort(line, TagPage) # ""
       THEN [NoRecord EXCEPT !.ret = "panic", !.abort = SectionNameAbort(line, TagPage)]
       ELSE Decoded(ExtractComponents(line, "page", PageComponents, PageTypes, 1, <<>>))

\* Char::new
CharNew(line) ==
    LET Decoded(r) ==
            IF r.ret # "ok" THEN [NoRecord EXCEPT !.ret = "err", !.error = r.error]
            ELSE [NoRecord EXCEPT !.char =
                     [id |-> U32Of(r.values[1]), x |-> U32Of(r.values[2]), y |-> U32Of(r.values[3]),
                      width |-> U32Of(r.values[4]), height |-> U32Of(r.values[5]),
                      xoffset |-> r.values[6].int, yoffset |-> r.values[7].int,
                      xadvance |-> r.values[8].int, page_index |-> U32Of(r.values[9])]]
    IN IF SectionNameAbort(line, TagChar) # ""
       THEN [NoRecord EXCEPT !.ret = "panic", !.abort = SectionNameAbort(line, TagChar)]
       ELSE Decoded(ExtractComponents(line, "char", CharComponents, CharTypes, 1, <<>>))

\* KerningValue::new
KerningValueNew(line) ==
    LET Decoded(r) ==
            IF r.ret # "ok" THEN [NoRecord EXCEPT !.ret = "err", !.error = r.error]
            ELSE [NoRecord EXCEPT !.kerning =
                     [first_char_id |-> U32Of(r.values[1]), second_char_id |-> U32Of(r.values[2]),
                      value |-> r.values[3].int]]
    IN IF SectionNameAbort(line, TagKerning) # ""
       THEN [NoRecord EXCEPT !.ret = "panic", !.abort = SectionNameAbort(line, TagKerning)]
       ELSE Decoded(ExtractComponents(line, "kerning", KerningComponents, KerningTypes, 1, <<>>))

\* ------------------------------------------------------------ construction

NoFont ==
    [base_height |-> 0, line_height |-> 0, characters |-> <<>>, kerning_values |-> <<>>,
     pages |-> <<>>, ordinate_orientation |-> "TopToBottom"]

\* The outcome of BMFont::new: ret is "ok" (with font), "err" (with section,
\* the name of a missing section, or error, the error of a component) or
\* "panic" (with abort); "none" before the call.
NoBuilt == [ret |-> "none", abort |-> "", section |-> <<>>, error |-> NoResult, font |-> NoFont]

\* BMFont::new, the page loop.
RECURSIVE PagesLoop(_, _)
PagesLoop(page_sections, pages) ==
    IF page_sections = <<>> THEN [NoBuilt EXCEPT !.ret = "ok", !.font.pages = pages]
    ELSE LET Try(page) ==
                 IF page.ret = "ok" THEN PagesLoop(Tail(page_sections), Append(pages, page.page))
                 ELSE [NoBuilt EXCEPT !.ret = page.ret, !.abort = page.abort, !.error = page.error]
         IN Try(PageNew(Head(page_sections)))

\* BMFont::new, the glyph loop: every line is decoded, then inserted unless
\* its id is in the table.
RECURSIVE CharsLoop(_, _)
CharsLoop(char_sections, characters) ==
    IF char_sections = <<>> THEN [NoBuilt EXCEPT !.ret = "ok", !.font.characters = characters]
    ELSE LET Try(char) ==
                 IF char.ret = "ok" THEN CharsLoop(Tail(char_sections), InsertChar(characters, char.char))
                 ELSE [NoBuilt EXCEPT !.ret = char.ret, !.abort = char.abort, !.error = char.error]
         IN Try(CharNew(Head(char_sections)))

\* BMFont::new, the kerning loop: the outcomes the insertions may produce.
RECURSIVE KerningLoop(_, _)
KerningLoop(kerning_sections, kerning_values) ==
    IF kerning_sections = <<>> THEN {[NoBuilt EXCEPT !.ret = "ok", !.font.kerning_values = kerning_values]}
    ELSE LET Try(kerning) ==
                 IF kerning.ret = "ok"
                 THEN UNION {KerningLoop(Tail(kerning_sections), t) : t \in InsertKerning(kerning_values, kerning.kerning)}
                 ELSE {[NoBuilt EXCEPT !.ret = kerning.ret, !.abort = kerning.abort, !.error = kerning.error]}
         IN Try(KerningValueNew(Head(kerning_sections)))

\* BMFont::new on the lines of the source: the outcomes it may have (the
\* kerning insertions leave the place of an entry among equal keys open).
BMFontNew(all, ordinate_orientation) ==
    LET Common(source_sections, i, name) ==
            ExtractComponentValue(TokenSome(source_sections.common_section, i), TokenAt(source_sections.common_section, i), "common", name, "u32")
        Build(line_height, base_height, pages, characters, kerning_values) ==
            IF line_height.ret # "ok" THEN {[NoBuilt EXCEPT !.ret = "err", !.error = line_height]}
            ELSE IF base_height.ret # "ok" THEN {[NoBuilt EXCEPT !.ret = "err", !.error = base_height]}
            ELSE IF pages.ret # "ok" THEN {pages}
            ELSE IF characters.ret # "ok" THEN {characters}
            ELSE {IF k.ret # "ok" THEN k
                  ELSE [k EXCEPT !.font = [base_height |-> U32Of(base_height.converted),
                                           line_height |-> U32Of(line_height.converted),
                                           characters |-> characters.font.characters,
                                           kerning_values |-> k.font.kerning_values,
                                           pages |-> pages.font.pages,
                                           ordinate_orientation |-> ordinate_orientation]] :
                     k \in kerning_values}
        Parsed(source_sections) ==
            IF source_sections.ret = "err" THEN {[NoBuilt EXCEPT !.ret = "err", !.section = source_sections.section]}
            ELSE IF source_sections.ret = "panic" THEN {[NoBuilt EXCEPT !.ret = "panic", !.abort = "unwrap"]}
            ELSE Build(Common(source_sections, 2, NameLineHeight),
                       Common(source_sections, 3, NameBase),
                       PagesLoop(source_sections.page_sections, <<>>),
                       CharsLoop(source_sections.char_sections, <<>>),
                       KerningLoop(source_sections.kerning_sections, <<>>))
    IN Parsed(SectionsNew(all))

\* PageIter::new
PageIterNew == [idx |-> 0]

\* A PageIter::next that yields the pages from the last one back.
PageIterNextFromEnd(pages, self) ==
    IF self.idx < Len(pages)
    THEN [ret |-> "some", file |-> pages[Len(pages) - self.idx].file, self |-> [idx |-> self.idx + 1]]
    ELSE [ret |-> "none", file |-> <<>>, self |-> self]

\* PageIter::next
PageIterNext(pages, self) ==
    IF self.idx < Len(pages)
    THEN [ret |-> "some", file |-> pages[self.idx + 1].file, self |-> [idx |-> self.idx + 1]]
    ELSE [ret |-> "none", file |-> <<>>, self |-> self]

\* ------------------------------------------------------------------- rects

\* A number beyond the range of the checker's integers, as hi * 65536 + lo
\* with lo in 0..65535.
Wide(hi, lo) == [hi |-> hi + (lo \div 65536), lo |-> lo % 65536]

WideAdd(a, b) == Wide(a.hi + b.hi, a.lo + b.lo)

\* The number is within i32.
InI32(a) == a.hi >= -32768 /\ a.hi <= 32767

\* The i32 with the number's low 32 bits.
WrapI32(a) == [hi |-> ((a.hi + 32768) % 65536) - 32768, lo |-> a.lo]

\* width as i32
AsI32(a) == WrapI32(a)

\* a + b on i32: the sum, its wrap-around in a build without overflow checks,
\* a panic in a build with them.
I32Add(a, b, checks) ==
    IF InI32(WideAdd(a, b)) THEN [panic |-> FALSE, value |-> WideAdd(a, b)]
    ELSE IF checks THEN [panic |-> TRUE, value |-> Wide(0, 0)]
    ELSE [panic |-> FALSE, value |-> WrapI32(WideAdd(a, b))]

\* Rect::max_x and Rect::max_y: min + size as i32 - 1.
MaxOf(min, size, checks) ==
    LET sum == I32Add(min, AsI32(size), checks)
    IN IF sum.panic THEN sum ELSE I32Add(sum.value, Wide(0, -1), checks)

\* ------------------------------------------------------------ the inputs

\* The decoded char lines of the font definitions explored, in file order.
GlyphNul == [id |-> 0, x |-> 1, y |-> 2, width |-> 2, height |-> 3, xoffset |-> 2, yoffset |-> 1, xadvance |-> 4, page_index |-> 0]

GlyphA == [id |-> 65, x |-> 10, y |-> 20, width |-> 5, height |-> 7, xoffset |-> 1, yoffset |-> 2, xadvance |-> 6, page_index |-> 0]

GlyphB == [id |-> 66, x |-> 30, y |-> 40, width |-> 6, height |-> 9, xoffset |-> -1, yoffset |-> 4, xadvance |-> 8, page_index |-> 1]

CharFiles == {<<GlyphA, GlyphB, GlyphNul>>, <<GlyphB, GlyphA>>}

KV(first, second, amount) == [first_char_id |-> first, second_char_id |-> second, value |-> amount]

\* The decoded kerning lines of the font definitions explored, in file order.
KerningFiles ==
    {<<>>,
     <<KV(65, 66, -2), KV(66, 65, 3)>>,
     <<KV(65, 66, -2), KV(65, 65, 1), KV(65, 66, 4)>>,
     <<KV(0, 65, 5), KV(65, 66, -2), KV(0, 0, 1)>>}

Orientations == {"BottomToTop", "TopToBottom"}

\* The fonts BMFont::new builds from these definitions.
Fonts ==
    {[base_height |-> 20, line_height |-> 30,
      characters |-> BuildCharacters(cf, <<>>),
      kerning_values |-> kv,
      ordinate_orientation |-> o] :
        cf \in CharFiles, kv \in UNION {BuildKerningValues(kf, <<>>) : kf \in KerningFiles}, o \in Orientations}

\* NUL, newline, two letters with glyphs, a letter without one, and a scalar
\* value outside the basic plane.
TextChars == {0, NewLine, 65, 66, 67, 128512}

Texts == UNION {[1..n -> TextChars] : n \in 0..MaxTextLen}

NoError == [missing_characters |-> <<>>, unsupported_characters |-> <<>>]

\* The lines explored: one of each kind.
Line(tag) == <<tag>>

TailLines == {Line(TagPage), Line(TagChars), Line(TagChar), Line(TagKernings), Line(TagKerning), Line(TagOther)}

\* The contents explored: the definitions cut before or at their common line,
\* and an info and a common line followed by any lines.
Contents ==
    {<<>>, <<Line(TagOther)>>, <<Line(TagInfo)>>, <<Line(TagInfo), Line(TagOther)>>,
     <<Line(TagCommon), Line(TagInfo)>>, <<Line(TagOther), Line(TagCommon), Line(TagPage)>>}
    \cup {<<Line(TagInfo), Line(TagCommon)>> \o t :
             t \in UNION {[1..n -> TailLines] : n \in 0..MaxTailLen}}

\* The characters of the tokens explored.
TokenChars == {"i", "d", "x", "=", "1", "-", "+"}

\* Tokens at the limits of the 32-bit types.
LimitTokens ==
    {<<"i", "d", "=", "4", "2", "9", "4", "9", "6", "7", "2", "9", "5">>,
     <<"i", "d", "=", "4", "2", "9", "4", "9", "6", "7", "2", "9", "6">>,
     <<"i", "d", "=", "2", "1", "4", "7", "4", "8", "3", "6", "4", "7">>,
     <<"i", "d", "=", "2", "1", "4", "7", "4", "8", "3", "6", "4", "8">>,
     <<"i", "d", "=", "-", "2", "1", "4", "7", "4", "8", "3", "6", "4", "8">>,
     <<"i", "d", "=", "-", "2", "1", "4", "7", "4", "8", "3", "6", "4", "9">>}

Tokens == UNION {[1..n -> TokenChars] : n \in 1..MaxTokenLen} \cup LimitTokens

ComponentNames == {<<"i", "d">>, <<"x">>}

TargetTypes == {"u32", "i32", "String"}

\* The calls explored: an absent token, or a token (split_whitespace yields no
\* empty token).
Args ==
    {[s_some |-> FALSE, s |-> <<>>, section |-> "char", component |-> c, ty |-> t] :
        c \in ComponentNames, t \in TargetTypes}
    \cup {[s_some |-> TRUE, s |-> s, section |-> "char", component |-> c, ty |-> t] :
        s \in Tokens, c \in ComponentNames, t \in TargetTypes}

\* The decimal text of a natural number.
RECURSIVE Decimal(_)
Decimal(n) == IF n < 10 THEN <<Digits[n + 1]>> ELSE Decimal(n \div 10) \o <<Digits[(n % 10) + 1]>>

\* The decimal text of an integer.
Signed(n) == IF n < 0 THEN <<"-">> \o Decimal(0 - n) ELSE Decimal(n)

\* The token name=value.
Component(name, value) == name \o <<"=">> \o value

\* The char line that declares a glyph.
CharLineOf(char) ==
    LET values == <<char.id, char.x, char.y, char.width, char.height,
                    char.xoffset, char.yoffset, char.xadvance, char.page_index>>
    IN <<TagChar>> \o [i \in 1..9 |-> Component(CharComponents[i], Signed(values[i]))]

\* The kerning line that declares an entry.
KerningLineOf(kerning) ==
    LET values == <<kerning.first_char_id, kerning.second_char_id, kerning.value>>
    IN <<TagKerning>> \o [i \in 1..3 |-> Component(KerningComponents[i], Signed(values[i]))]

\* The page line of a page: page id=<id> file="<file>".
PageLineOf(id, file) ==
    <<TagPage, Component(NameId, Decimal(id)), Component(NameFile, <<Quote>> \o file \o <<Quote>>)>>

\* A second declaration of id 65, with other metrics.
GlyphA2 == [GlyphA EXCEPT !.x = 50, !.width = 4, !.xoffset = -3, !.xadvance = 9, !.page_index = 1]

\* A third declaration of id 65 whose xadvance does not convert.
CharLineBad == [CharLineOf(GlyphA) EXCEPT ![9] = Component(CharComponents[8], <<"x">>)]

\* A line of the char run whose first token is "chars".
CharsLine == <<TagChars, Component(<<"c", "o", "u", "n", "t">>, <<"2">>)>>

CharLines == {CharLineOf(GlyphA), CharLineOf(GlyphB), CharLineOf(GlyphNul), CharLineOf(GlyphA2), CharLineBad, CharsLine}

\* A kerning line without its amount.
KerningLineBad == SubSeq(KerningLineOf(KV(65, 66, -2)), 1, 3)

\* A line of the kerning run whose first token is "kernings".
KerningsLine == <<TagKernings, Component(<<"c", "o", "u", "n", "t">>, <<"1">>)>>

KerningLines == {KerningLineOf(KV(65, 66, -2)), KerningLineBad, KerningsLine}

\* Two pages, and a page line whose second component is not id.
PageLines ==
    {PageLineOf(0, <<"a">>), PageLineOf(1, <<"b">>),
     <<TagPage, Component(NameFile, <<Quote, "a", Quote>>), Component(NameId, <<"0">>)>>}

\* Common lines: a good one, one whose lineHeight does not convert and whose
\* base is absent, and one whose third token is not base.
CommonLines ==
    {<<TagCommon, Component(NameLineHeight, Decimal(30)), Component(NameBase, Decimal(20))>>,
     <<TagCommon, Component(NameLineHeight, <<"x">>)>>,
     <<TagCommon, Component(NameLineHeight, Decimal(30)), Component(NameId, Decimal(20))>>}

\* Lines in the page, char and kerning groups of a definition, together.
MaxRecordLines == 4

\* The lines after the char group: nothing, or the kernings count line and a
\* kerning group of nk lines.
KerningTails(nk) ==
    (IF nk = 0 THEN {<<>>} ELSE {}) \cup {<<Line(TagKernings)>> \o k : k \in [1..nk -> KerningLines]}

\* A font definition: an info line, a common line, a page group, the chars
\* count line, a char group and a tail.
Definition(common, page_group, char_group, tail) ==
    <<Line(TagInfo), common>> \o page_group \o <<Line(TagChars)>> \o char_group \o tail

\* Definitions cut short before the char group.
CutDefinitions ==
    {<<>>, <<Line(TagOther)>>, <<Line(TagInfo)>>}
    \cup {<<Line(TagInfo), c>> \o p \o t :
            c \in CommonLines, p \in [1..1 -> PageLines], t \in {<<>>, <<Line(TagChars)>>}}

\* Characters of the value of a file component.
MaxFileLen == 4

\* The page lines handed to Page::new alone: page id=0 file=<value>, the
\* value any text of quotes and letters.
PageCallLines ==
    {<<TagPage, Component(NameId, Decimal(0)), Component(NameFile, v)>> :
        v \in UNION {[1..n -> {Quote, "a", "b"}] : n \in 0..MaxFileLen}}

\* The ids find_kerning_values is called with: the smallest and the largest
\* id of a glyph, ids with and without kerning entries.
KerningQueryIds == {0, 65, 66, 67, 65535}

\* Characters of each of the two texts laid out side by side.
MaxPairLen == 2

\* NUL, newline and two letters, all with glyphs in the font.
PairTextChars == {0, NewLine, 65, 66}

PairTexts == UNION {[1..n -> PairTextChars] : n \in 0..MaxPairLen}

\* The fonts two iterators share: glyphs 0, 65 and 66 and kerning entries
\* for them.
PairFonts ==
    {f \in Fonts : /\ Len(f.characters) = 3
                   /\ Len(f.kerning_values) = 3
                   /\ \E i \in 1..3 : f.kerning_values[i].first_char_id = 0
                   /\ f.ordinate_orientation = "TopToBottom"}

\* The values of x and y explored: the ends and the middle of i32.
I32Values == {Wide(-32768, 0), Wide(-32768, 1), Wide(-1, 65535), Wide(0, 0), Wide(0, 1), Wide(32767, 65534), Wide(32767, 65535)}

\* The values of width and height explored: small ones, those around 2^31
\* and the largest u32.
U32Values == {Wide(0, 0), Wide(0, 1), Wide(0, 2), Wide(32767, 65535), Wide(32768, 0), Wide(32768, 1), Wide(65535, 65535)}

\* ------------------------------------------------------------ the machines

LayoutIdle ==
    /\ font = CHOOSE f \in Fonts : TRUE
    /\ text = <<>>
    /\ parse_error = FALSE
    /\ overflow_checks = FALSE
    /\ status = "idle"
    /\ iter = ParseIterNew
    /\ out = <<>>
    /\ ghost = <<>>
    /\ err = NoError

SectionsIdle ==
    /\ content = <<>>
    /\ sections = NoSections

ExtractIdle ==
    /\ arg = [s_some |-> FALSE, s |-> <<>>, section |-> "", component |-> <<>>, ty |-> ""]
    /\ extracted = NoResult

\* No pages() invocation yet.
NoPager == [calls |-> 0, self |-> PageIterNew, out |-> <<>>, done |-> FALSE]

NewIdle ==
    /\ built = NoBuilt
    /\ pager = NoPager

PageIdle ==
    /\ page_line = <<>>
    /\ new_page = [NoRecord EXCEPT !.ret = "none"]

NoRect == [x |-> Wide(0, 0), y |-> Wide(0, 0), width |-> Wide(0, 0), height |-> Wide(0, 0), overflow_checks |-> FALSE]

NoMax == [x |-> "none", max_x |-> Wide(0, 0), y |-> "none", max_y |-> Wide(0, 0)]

RectIdle ==
    /\ rect = NoRect
    /\ max = NoMax

NoKerningCall == [first_char_id |-> 0, status |-> "idle", self |-> KerningIterEmpty(<<>>), out |-> <<>>]

KerningIdle == kerning_call = NoKerningCall

NoOther == [text |-> <<>>, status |-> "idle", iter |-> ParseIterNew, out |-> <<>>]

OtherIdle == other = NoOther

Init ==
    /\ font \in Fonts
    /\ text \in Texts
    /\ parse_error \in BOOLEAN
    /\ overflow_checks \in BOOLEAN
    /\ status = "start"
    /\ iter = ParseIterNew
    /\ out = <<>>
    /\ ghost = <<>>
    /\ err = NoError
    /\ SectionsIdle
    /\ ExtractIdle
    /\ NewIdle
    /\ PageIdle
    /\ RectIdle
    /\ KerningIdle
    /\ OtherIdle

\* BMFont::parse
Parse ==
    /\ status = "start"
    /\ LET lines == ParseLines(font.characters, text, parse_error)
       IN /\ status' = IF lines.ok THEN "iter" ELSE "error"
          /\ err' = lines.error
    /\ iter' = ParseIterNew
    /\ UNCHANGED <<font, text, parse_error, overflow_checks, out, ghost, sectionVars, extractVars, newVars, pageVars, rectVars, kerning_call, other>>

\* One call of ParseIter::next by the consumer.
IterNext ==
    /\ status \in {"iter", "done"}
    /\ LET r == ParseIterNext(font, text, parse_error, overflow_checks, iter)
       IN /\ iter' = r.self
          /\ status' = CASE r.ret = "some" -> "iter"
                         [] r.ret = "none" -> "done"
                         [] OTHER -> "panic"
          /\ out' = IF r.ret = "some" THEN Append(out, r.item) ELSE out
          /\ ghost' = IF r.ret = "some"
                      THEN Append(ghost, [src |-> r.src, kerning |-> r.kerning, id |-> r.id])
                      ELSE ghost
    /\ UNCHANGED <<font, text, parse_error, overflow_checks, err, sectionVars, extractVars, newVars, pageVars, rectVars, kerning_call, other>>

Next == Parse \/ IterNext

Spec == Init /\ [][Next]_vars

InitSections ==
    /\ LayoutIdle
    /\ ExtractIdle
    /\ NewIdle
    /\ PageIdle
    /\ RectIdle
    /\ KerningIdle
    /\ OtherIdle
    /\ sections = NoSections
    /\ content \in Contents

\* Sections::new(source)
SectionsNewCall ==
    /\ sections.ret = "none"
    /\ sections' = SectionsNew(content)
    /\ UNCHANGED <<content, layoutVars, extractVars, newVars, pageVars, rectVars, kerning_call, other>>

NextSections == SectionsNewCall

SpecSections == InitSections /\ [][NextSections]_vars

InitExtract ==
    /\ LayoutIdle
    /\ SectionsIdle
    /\ NewIdle
    /\ PageIdle
    /\ RectIdle
    /\ KerningIdle
    /\ OtherIdle
    /\ extracted = NoResult
    /\ arg \in Args

\* utils::extract_component_value(s, section, component)
ExtractCall ==
    /\ extracted.ret = "none"
    /\ extracted' = ExtractComponentValue(arg.s_some, arg.s, arg.section, arg.component, arg.ty)
    /\ UNCHANGED <<arg, layoutVars, sectionVars, newVars, pageVars, rectVars, kerning_call, other>>

NextExtract == ExtractCall

SpecExtract == InitExtract /\ [][NextExtract]_vars

\* pages() may be invoked this many times.
MaxPagesCalls == 2

InitNew ==
    /\ LayoutIdle
    /\ ExtractIdle
    /\ PageIdle
    /\ RectIdle
    /\ KerningIdle
    /\ OtherIdle
    /\ sections = NoSections
    /\ built = NoBuilt
    /\ pager = NoPager
    /\ \/ content \in CutDefinitions
       \/ \E np \in 1..(MaxRecordLines - 1) : \E nc \in 1..(MaxRecordLines - np) : \E nk \in 0..(MaxRecordLines - np - nc) :
             \E c \in CommonLines, p \in [1..np -> PageLines], ch \in [1..nc -> CharLines], t \in KerningTails(nk) :
                 content = Definition(c, p, ch, t)

\* BMFont::new(source, ordinate_orientation)
BMFontNewCall ==
    /\ built.ret = "none"
    /\ \E ordinate_orientation \in Orientations : built' \in BMFontNew(content, ordinate_orientation)
    /\ UNCHANGED <<content, pager, sections, layoutVars, extractVars, pageVars, rectVars, kerning_call, other>>

\* BMFont::pages
Pages ==
    /\ built.ret = "ok"
    /\ pager.calls < MaxPagesCalls
    /\ pager' = [calls |-> pager.calls + 1, self |-> PageIterNew, out |-> <<>>, done |-> FALSE]
    /\ UNCHANGED <<content, built, sections, layoutVars, extractVars, pageVars, rectVars, kerning_call, other>>

\* One call of PageIter::next by the consumer.
PageIterNextCall ==
    /\ pager.calls > 0
    /\ LET r == PageIterNext(built.font.pages, pager.self)
       IN pager' = [pager EXCEPT !.self = r.self,
                                 !.out = IF r.ret = "some" THEN Append(pager.out, r.file) ELSE pager.out,
                                 !.done = r.ret = "none"]
    /\ UNCHANGED <<content, built, sections, layoutVars, extractVars, pageVars, rectVars, kerning_call, other>>

NextNew == BMFontNewCall \/ Pages \/ PageIterNextCall

SpecNew == InitNew /\ [][NextNew]_vars

InitPage ==
    /\ LayoutIdle
    /\ SectionsIdle
    /\ ExtractIdle
    /\ NewIdle
    /\ RectIdle
    /\ KerningIdle
    /\ OtherIdle
    /\ new_page = [NoRecord EXCEPT !.ret = "none"]
    /\ page_line \in PageCallLines

\* Page::new(s)
PageNewCall ==
    /\ new_page.ret = "none"
    /\ new_page' = PageNew(page_line)
    /\ UNCHANGED <<page_line, layoutVars, sectionVars, extractVars, newVars, rectVars, kerning_call, other>>

NextPage == PageNewCall

SpecPage == InitPage /\ [][NextPage]_vars

InitKerning ==
    /\ text = <<>>
    /\ parse_error = FALSE
    /\ status = "idle"
    /\ iter = ParseIterNew
    /\ out = <<>>
    /\ ghost = <<>>
    /\ err = NoError
    /\ SectionsIdle
    /\ ExtractIdle
    /\ NewIdle
    /\ PageIdle
    /\ RectIdle
    /\ OtherIdle
    /\ font \in Fonts
    /\ overflow_checks \in BOOLEAN
    /\ \E id \in KerningQueryIds :
          kerning_call = [NoKerningCall EXCEPT !.first_char_id = id, !.status = "start"]

\* BMFont::find_kerning_values(first_char_id)
FindKerningValuesCall ==
    /\ kerning_call.status = "start"
    /\ LET r == FindKerningValues(font.kerning_values, kerning_call.first_char_id, overflow_checks)
       IN kerning_call' =
              IF r.panic THEN [kerning_call EXCEPT !.status = "panic"]
              ELSE [kerning_call EXCEPT !.status = "iter",
                                        !.self = [first_char_id |-> r.first_char_id, idx |-> r.idx]]
    /\ UNCHANGED <<layoutVars, sectionVars, extractVars, newVars, pageVars, rectVars, other>>

\* One call of KerningIter::next by the consumer.
KerningIterNextCall ==
    /\ kerning_call.status = "iter"
    /\ LET r == KerningIterNext(font.kerning_values, kerning_call.self)
       IN kerning_call' =
              [kerning_call EXCEPT !.status = IF r.ret = "some" THEN "iter" ELSE "done",
                                   !.self = r.self,
                                   !.out = IF r.ret = "some" THEN Append(kerning_call.out, r.value) ELSE kerning_call.out]
    /\ UNCHANGED <<layoutVars, sectionVars, extractVars, newVars, pageVars, rectVars, other>>

NextKerning == FindKerningValuesCall \/ KerningIterNextCall

SpecKerning == InitKerning /\ [][NextKerning]_vars

InitPair ==
    /\ SectionsIdle
    /\ ExtractIdle
    /\ NewIdle
    /\ PageIdle
    /\ RectIdle
    /\ KerningIdle
    /\ status = "start"
    /\ iter = ParseIterNew
    /\ out = <<>>
    /\ ghost = <<>>
    /\ err = NoError
    /\ font \in PairFonts
    /\ parse_error \in BOOLEAN
    /\ overflow_checks \in BOOLEAN
    /\ text \in PairTexts
    /\ \E s \in PairTexts : other = [NoOther EXCEPT !.text = s, !.status = "start"]

\* BMFont::parse for the second iterator.
ParseOther ==
    /\ other.status = "start"
    /\ other' = [other EXCEPT !.status = IF ParseLines(font.characters, other.text, parse_error).ok THEN "iter" ELSE "error",
                              !.iter = ParseIterNew]
    /\ UNCHANGED <<layoutVars, sectionVars, extractVars, newVars, pageVars, rectVars, kerning_call>>

\* A next() of the second iterator that leaves its kerning candidates in the
\* first iterator, as if the candidates were kept in the font.
IterNextOtherSharesCandidates ==
    /\ other.status \in {"iter", "done"}
    /\ LET r == ParseIterNext(font, other.text, parse_error, overflow_checks, other.iter)
       IN /\ other' = [other EXCEPT !.iter = r.self,
                                    !.status = CASE r.ret = "some" -> "iter"
                                                 [] r.ret = "none" -> "done"
                                                 [] OTHER -> "panic",
                                    !.out = IF r.ret = "some" THEN Append(other.out, r.item) ELSE other.out]
          /\ iter' = IF iter.line_some /\ r.self.line_some
                     THEN [iter EXCEPT !.line.kerning_values = r.self.line.kerning_values]
                     ELSE iter
    /\ UNCHANGED <<font, text, parse_error, overflow_checks, status, out, ghost, err, sectionVars, extractVars, newVars, pageVars, rectVars, kerning_call>>

\* One call of ParseIter::next on the second iterator.
IterNextOther ==
    /\ other.status \in {"iter", "done"}
    /\ LET r == ParseIterNext(font, other.text, parse_error, overflow_checks, other.iter)
       IN other' = [other EXCEPT !.iter = r.self,
                                 !.status = CASE r.ret = "some" -> "iter"
                                              [] r.ret = "none" -> "done"
                                              [] OTHER -> "panic",
                                 !.out = IF r.ret = "some" THEN Append(other.out, r.item) ELSE other.out]
    /\ UNCHANGED <<layoutVars, sectionVars, extractVars, newVars, pageVars, rectVars, kerning_call>>

NextPair == Parse \/ IterNext \/ ParseOther \/ IterNextOther

SpecPair == InitPair /\ [][NextPair]_vars

InitRect ==
    /\ LayoutIdle
    /\ SectionsIdle
    /\ ExtractIdle
    /\ NewIdle
    /\ PageIdle
    /\ KerningIdle
    /\ OtherIdle
    /\ max = NoMax
    /\ \E x \in I32Values, y \in I32Values, width \in U32Values, height \in U32Values, checks \in BOOLEAN :
          rect = [x |-> x, y |-> y, width |-> width, height |-> height, overflow_checks |-> checks]

\* Rect::max_x
MaxXCall ==
    /\ max.x = "none"
    /\ LET r == MaxOf(rect.x, rect.width, rect.overflow_checks)
       IN max' = [max EXCEPT !.x = IF r.panic THEN "panic" ELSE "ok", !.max_x = r.value]
    /\ UNCHANGED <<rect, layoutVars, sectionVars, extractVars, newVars, pageVars, kerning_call, other>>

\* Rect::max_y
MaxYCall ==
    /\ max.y = "none"
    /\ LET r == MaxOf(rect.y, rect.height, rect.overflow_checks)
       IN max' = [max EXCEPT !.y = IF r.panic THEN "panic" ELSE "ok", !.max_y = r.value]
    /\ UNCHANGED <<rect, layoutVars, sectionVars, extractVars, newVars, pageVars, kerning_call, other>>

NextRect == MaxXCall \/ MaxYCall

SpecRect == InitRect /\ [][NextRect]_vars

\* ------------------------------------------------------------ layout claims

\* The number of '\n' among the first n characters of s.
NewlinesBefore(s, n) == Cardinality({j \in 1..n : s[j] = NewLine})

\* The glyph of the font whose id is id.
GlyphOf(f, id) == CHOOSE c \in {f.characters[i] : i \in 1..Len(f.characters)} : c.id = id

\* The character needs one UTF-16 unit and the font has a glyph for it.
Resolves(f, c) == c < Utf16Pair /\ \E i \in 1..Len(f.characters) : f.characters[i].id = c

\* The line (number of preceding newlines) of the k-th emitted element.
LineOf(k) == NewlinesBefore(text, ghost[k].src)

\* C1: every emitted glyph has screen_rect.y = n*line_height + yoffset
\* (TopToBottom) or -n*line_height + base_height - yoffset - height
\* (BottomToTop), n the number of newlines before its character, empty lines
\* included; width, height, page_rect and page_index are copied from the glyph.
C1_ScreenY ==
    \A k \in 1..Len(out) :
        LET c == GlyphOf(font, text[ghost[k].src + 1])
            n == LineOf(k)
        IN /\ out[k].screen_rect.y =
                  IF font.ordinate_orientation = "TopToBottom"
                  THEN (n * font.line_height) + c.yoffset
                  ELSE (0 - (n * font.line_height)) + font.base_height - c.yoffset - c.height
           /\ out[k].screen_rect.width = c.width
           /\ out[k].screen_rect.height = c.height
           /\ out[k].page_rect = [x |-> c.x, y |-> c.y, width |-> c.width, height |-> c.height]
           /\ out[k].page_index = c.page_index

\* A glyph was emitted after an empty line, on the third line, bottom to top.
C1_Witness ==
    /\ font.ordinate_orientation = "BottomToTop"
    /\ \E k \in 1..Len(out) :
           /\ LineOf(k) = 2
           /\ text[ghost[k].src] = NewLine
           /\ text[ghost[k].src - 1] = NewLine

\* The cursor advance of the elements before the k-th on the k-th's line.
RECURSIVE AdvanceBefore(_, _)
AdvanceBefore(k, j) ==
    IF j = 0 THEN 0
    ELSE AdvanceBefore(k, j - 1)
         + (IF LineOf(j) = LineOf(k)
            THEN GlyphOf(font, ghost[j].id).xadvance + ghost[j].kerning
            ELSE 0)

\* C2: on each line the i-th glyph has screen_rect.x = (sum over the earlier
\* glyphs of the line of xadvance + kerning) + its xoffset + its kerning.
C2_ScreenX ==
    \A k \in 1..Len(out) :
        out[k].screen_rect.x =
            AdvanceBefore(k, k - 1) + GlyphOf(font, ghost[k].id).xoffset + ghost[k].kerning

\* Three glyphs on one line, the second and the third with kerning applied.
C2_Witness ==
    /\ Len(out) = 3
    /\ LineOf(1) = LineOf(3)
    /\ ghost[2].kerning # 0
    /\ ghost[3].kerning # 0

\* The value of the first entry of the table, in table order, for the pair, or 0.
FirstEntryValue(values, first, second) ==
    LET hits == {i \in 1..Len(values) :
                    values[i].first_char_id = first /\ values[i].second_char_id = second}
    IN IF hits = {} THEN 0
       ELSE values[CHOOSE i \in hits : \A j \in hits : i <= j].value

\* C3: the kerning applied to a glyph is the value of the first table entry
\* for (the glyph emitted just before it on the same line, the glyph), 0 when
\* there is none, and 0 for the first glyph of a line.
C3_KerningOneBack ==
    \A k \in 1..Len(out) :
        ghost[k].kerning =
            IF k > 1 /\ LineOf(k - 1) = LineOf(k)
            THEN FirstEntryValue(font.kerning_values, ghost[k - 1].id, ghost[k].id)
            ELSE 0

\* The characters of s the strict validation reports as unsupported.
UnsupportedOf(s) == SelectSeq(s, LAMBDA c : c # NewLine /\ c >= Utf16Pair)

\* The characters of s the strict validation reports as missing.
MissingOf(f, s) == SelectSeq(s, LAMBDA c : c # NewLine /\ c < Utf16Pair /\ ~Resolves(f, c))

\* C4: in strict mode parse fails exactly when the text holds an unsupported
\* or a missing character; the error lists exactly those characters, in text
\* order with repeats, no character in both lists and never '\n'.
C4_StrictError ==
    (parse_error /\ status # "start") =>
        /\ (status = "error") <=> (UnsupportedOf(text) # <<>> \/ MissingOf(font, text) # <<>>)
        /\ status = "error" =>
              /\ err.unsupported_characters = UnsupportedOf(text)
              /\ err.missing_characters = MissingOf(font, text)
        /\ \A i \in 1..Len(err.missing_characters), j \in 1..Len(err.unsupported_characters) :
              err.missing_characters[i] # err.unsupported_characters[j]
        /\ \A i \in 1..Len(err.missing_characters) : err.missing_characters[i] # NewLine
        /\ \A j \in 1..Len(err.unsupported_characters) : err.unsupported_characters[j] # NewLine

\* A strict parse failed on a text with a newline, a missing and an unsupported character.
C4_Witness ==
    /\ parse_error
    /\ status = "error"
    /\ err.missing_characters # <<>>
    /\ err.unsupported_characters # <<>>
    /\ \E i \in 1..Len(text) : text[i] = NewLine

\* The whole output of a fresh layout of s: next() until None or a panic.
RECURSIVE RunFrom(_, _, _, _, _, _)
RunFrom(f, s, strict, checks, self, acc) ==
    LET r == ParseIterNext(f, s, strict, checks, self)
    IN IF r.ret = "some" THEN RunFrom(f, s, strict, checks, r.self, Append(acc, r.item))
       ELSE [out |-> acc, end |-> IF r.ret = "none" THEN "done" ELSE "panic"]

\* s without the characters that are not '\n' and do not resolve to a glyph.
Deleted(f, s) == SelectSeq(s, LAMBDA c : c = NewLine \/ Resolves(f, c))

\* C5: in permissive mode the output for a text equals the output for the text
\* with its unresolvable characters deleted.
C5_PermissiveSkips ==
    (~parse_error /\ status \in {"done", "panic"}) =>
        [out |-> out, end |-> status] =
            RunFrom(font, Deleted(font, text), FALSE, overflow_checks, ParseIterNew, <<>>)

\* A permissive layout ended after skipping a character between two glyphs of
\* one line that have a kerning entry.
C5_Witness ==
    /\ ~parse_error
    /\ status = "done"
    /\ Len(out) = 2
    /\ ghost[2].src = ghost[1].src + 2
    /\ text[ghost[1].src + 2] # NewLine
    /\ ghost[2].kerning # 0

\* The 0-based text indices of the characters that resolve to a glyph, ascending.
RECURSIVE ResolvedIndices(_, _, _)
ResolvedIndices(f, s, i) ==
    IF i >= Len(s) THEN <<>>
    ELSE (IF s[i + 1] # NewLine /\ Resolves(f, s[i + 1]) THEN <<i>> ELSE <<>>)
         \o ResolvedIndices(f, s, i + 1)

\* C6: a layout that ends without failure has produced one element per
\* character that is not '\n' and resolves to a glyph, in text order; the
\* empty text and a text of newlines alone give no element and no failure.
C6_ElementCount ==
    /\ status = "done" =>
          [k \in 1..Len(out) |-> ghost[k].src] = ResolvedIndices(font, text, 0)
    /\ (\A i \in 1..Len(text) : text[i] = NewLine) =>
          (status \in {"start", "iter", "done"} /\ out = <<>>)

\* A layout ended with two elements from two different lines.
C6_Witness ==
    /\ status = "done"
    /\ Len(out) = 2
    /\ LineOf(1) # LineOf(2)

\* A layout of a text of newlines alone ended.
C6_WitnessNewlines ==
    /\ status = "done"
    /\ Len(text) = MaxTextLen
    /\ \A i \in 1..Len(text) : text[i] = NewLine


\* ------------------------------------------------- section splitter claims

\* The 1-based index of the first line after the common line that starts with "page".
PageStart(c) ==
    CHOOSE i \in 3..Len(c) :
        StartsWith(c[i], TagPage) /\ \A j \in 3..(i - 1) : ~StartsWith(c[j], TagPage)

\* The index of the last line of the maximal run of lines with the prefix that
\* starts at index from (from - 1 when the run is empty).
RunEnd(c, from, prefix) ==
    CHOOSE e \in (from - 1)..Len(c) :
        /\ \A i \in from..e : StartsWith(c[i], prefix)
        /\ e = Len(c) \/ ~StartsWith(c[e + 1], prefix)

\* The definition has an info line, a common line and a page line after them.
HasHead(c) ==
    /\ Len(c) >= 2
    /\ StartsWith(c[1], TagInfo)
    /\ StartsWith(c[2], TagCommon)
    /\ \E i \in 3..Len(c) : StartsWith(c[i], TagPage)

PageEnd(c) == RunEnd(c, PageStart(c), TagPage)

\* The last line of the char run, which starts after the one line that
\* follows the page run; with nothing after the page run the run is empty.
CharEnd(c) ==
    IF PageEnd(c) = Len(c) THEN Len(c)
    ELSE RunEnd(c, PageEnd(c) + 2, TagChar)

CharRunEmpty(c) == PageEnd(c) = Len(c) \/ CharEnd(c) = PageEnd(c) + 1

\* C7: a definition with an info line, a common line and a page line whose
\* char run is empty, whatever follows the page run (nothing included), fails
\* with MissingSection("char").
C7_MissingChar ==
    (sections.ret # "none" /\ HasHead(content) /\ CharRunEmpty(content)) =>
        sections = MissingSection(TagChar)

\* C8: the first violation in the order info, common, page is reported; lines
\* between the common line and the first page line are skipped; the page
\* group is the maximal run of page lines from the first one.
C8_SectionOrder ==
    sections.ret # "none" =>
        IF ~(Len(content) >= 1 /\ StartsWith(content[1], TagInfo))
        THEN sections = MissingSection(TagInfo)
        ELSE IF ~(Len(content) >= 2 /\ StartsWith(content[2], TagCommon))
        THEN sections = MissingSection(TagCommon)
        ELSE IF ~(\E i \in 3..Len(content) : StartsWith(content[i], TagPage))
        THEN sections = MissingSection(TagPage)
        ELSE /\ sections.section \notin {TagInfo, TagCommon, TagPage}
             /\ sections.ret = "ok" =>
                   /\ sections.common_section = content[2]
                   /\ sections.page_sections =
                          SubSeq(content, PageStart(content), PageEnd(content))

\* Sections::new succeeded on a definition with a line skipped before the
\* first page line, two page lines in the group and a page line after it.
C8_Witness ==
    /\ sections.ret = "ok"
    /\ PageStart(content) > 3
    /\ PageEnd(content) > PageStart(content)
    /\ \E i \in (PageEnd(content) + 1)..Len(content) : StartsWith(content[i], TagPage)

\* C9: a definition that ends with its char run succeeds with no kerning
\* line; when a line follows the char run it is consumed and the kerning group
\* is the maximal run of kerning lines after it, empty or not, never an error.
C9_KerningOptional ==
    (sections.ret # "none" /\ HasHead(content) /\ ~CharRunEmpty(content)) =>
        /\ sections.ret = "ok"
        /\ sections.kerning_sections =
              IF CharEnd(content) = Len(content) THEN <<>>
              ELSE SubSeq(content, CharEnd(content) + 2,
                          RunEnd(content, CharEnd(content) + 2, TagKerning))

\* Sections::new succeeded where the line after the char run starts with
\* "kerning" and the kerning group after it is followed by another line.
C9_Witness ==
    /\ sections.ret = "ok"
    /\ CharEnd(content) < Len(content)
    /\ StartsWith(content[CharEnd(content) + 1], TagKerning)
    /\ sections.kerning_sections # <<>>
    /\ RunEnd(content, CharEnd(content) + 2, TagKerning) < Len(content)

\* Sections::new succeeded on a definition that ends with its char run.
C9_WitnessNoKerning ==
    /\ sections.ret = "ok"
    /\ CharEnd(content) = Len(content)

\* ----------------------------------------------------- extraction claims

\* The 1-based index of the first '=' of the token, 0 when it has none.
FirstEq(s) ==
    IF \E i \in 1..Len(s) : s[i] = "=" 
    THEN CHOOSE i \in 1..Len(s) : s[i] = "=" /\ \A j \in 1..(i - 1) : s[j] # "="
    ELSE 0

KeyOf(s) == SubSeq(s, 1, FirstEq(s) - 1)

ValueOf(s) == SubSeq(s, FirstEq(s) + 1, Len(s))

\* C10: the outcome of extract_component_value, in precedence: absent token ->
\* MissingComponent; no '=' -> InvalidComponentValue with empty value; another
\* key -> InvalidComponent; value not convertible -> InvalidComponentValue with
\* the value; else the converted value.
C10_Precedence ==
    extracted.ret # "none" =>
        extracted =
            IF ~arg.s_some
            THEN [NoResult EXCEPT !.ret = "MissingComponent", !.section = arg.section,
                                  !.component = arg.component]
            ELSE IF FirstEq(arg.s) = 0
            THEN [NoResult EXCEPT !.ret = "InvalidComponentValue", !.section = arg.section,
                                  !.component = arg.component, !.value = <<>>]
            ELSE IF KeyOf(arg.s) # arg.component
            THEN [NoResult EXCEPT !.ret = "InvalidComponent", !.section = arg.section,
                                  !.component = arg.component,
                                  !.actual_component = KeyOf(arg.s)]
            ELSE IF ~FromStr(arg.ty, ValueOf(arg.s)).ok
            THEN [NoResult EXCEPT !.ret = "InvalidComponentValue", !.section = arg.section,
                                  !.component = arg.component, !.value = ValueOf(arg.s)]
            ELSE [NoResult EXCEPT !.ret = "ok", !.converted = FromStr(arg.ty, ValueOf(arg.s))]

\* A token with another key and a value that does not convert gave InvalidComponent.
C10_Witness ==
    /\ extracted.ret = "InvalidComponent"
    /\ FirstEq(arg.s) > 1
    /\ ~FromStr(arg.ty, ValueOf(arg.s)).ok

\* A token without '=' whose text is not the expected name gave the empty value.
C10_WitnessNoEq ==
    /\ extracted.ret = "InvalidComponentValue"
    /\ extracted.value = <<>>
    /\ arg.s # arg.component
    /\ FirstEq(arg.s) = 0

\* A value beyond the 32-bit range was refused with the value reported.
C10_WitnessOverflow ==
    /\ extracted.ret = "InvalidComponentValue"
    /\ Len(extracted.value) = 10
    /\ \A i \in 1..10 : IsDigit(extracted.value[i])

\* ----------------------------------------------------- construction claims

\* The section the splitter misses first, in the order info, common, page,
\* char (an empty char run, whatever follows the page run); <<>> when none.
SplitterError(c) ==
    IF ~(Len(c) >= 1 /\ StartsWith(c[1], TagInfo)) THEN TagInfo
    ELSE IF ~(Len(c) >= 2 /\ StartsWith(c[2], TagCommon)) THEN TagCommon
    ELSE IF ~HasHead(c) THEN TagPage
    ELSE IF CharRunEmpty(c) THEN TagChar
    ELSE <<>>

\* The page, char and kerning groups of a definition the splitter accepts.
PageGroup(c) == SubSeq(c, PageStart(c), PageEnd(c))

CharGroup(c) == SubSeq(c, PageEnd(c) + 2, CharEnd(c))

KerningGroup(c) ==
    IF CharEnd(c) = Len(c) THEN <<>>
    ELSE SubSeq(c, CharEnd(c) + 2, RunEnd(c, CharEnd(c) + 2, TagKerning))

\* The error of component i of a record line, NoResult when it converts.
ComponentFailure(line, section, names, types, i) ==
    LET r == ExtractComponentValue(TokenSome(line, i + 1), TokenAt(line, i + 1), section, names[i], types[i])
    IN IF r.ret = "ok" THEN NoResult ELSE r

\* The error of the first failing component of a record line, in position order.
RecordFailure(line, section, names, types) ==
    LET bad == {i \in 1..Len(names) : ComponentFailure(line, section, names, types, i) # NoResult}
    IN IF bad = {} THEN NoResult
       ELSE ComponentFailure(line, section, names, types, CHOOSE i \in bad : \A j \in bad : i <= j)

\* The error of the first failing line of a group, in file order.
FirstFailure(lines, section, names, types) ==
    LET bad == {i \in 1..Len(lines) : RecordFailure(lines[i], section, names, types) # NoResult}
    IN IF bad = {} THEN NoResult
       ELSE RecordFailure(lines[CHOOSE i \in bad : \A j \in bad : i <= j], section, names, types)

\* The errors of a definition the splitter accepts, in pipeline order.
PipelineFailures(c) ==
    <<ComponentFailure(c[2], "common", <<NameLineHeight>>, <<"u32">>, 1),
      ComponentFailure(c[2], "common", <<NameLineHeight, NameBase>>, <<"u32", "u32">>, 2),
      FirstFailure(PageGroup(c), "page", PageComponents, PageTypes),
      FirstFailure(CharGroup(c), "char", CharComponents, CharTypes),
      FirstFailure(KerningGroup(c), "kerning", KerningComponents, KerningTypes)>>

\* What construction reports: the splitter's error, else the first error in
\* pipeline order, else nothing.
FirstError(c) ==
    IF SplitterError(c) # <<>> THEN [NoBuilt EXCEPT !.ret = "err", !.section = SplitterError(c)]
    ELSE LET bad == {i \in 1..5 : PipelineFailures(c)[i] # NoResult}
         IN IF bad = {} THEN NoBuilt
            ELSE [NoBuilt EXCEPT !.ret = "err", !.error = PipelineFailures(c)[CHOOSE i \in bad : \A j \in bad : i <= j]]

\* C11: construction returns the first error in pipeline order (splitter,
\* common lineHeight, common base, first failing page line, first failing char
\* line, duplicate ids included, first failing kerning line; within a line the
\* first failing component) and no font; it returns a font only when nothing
\* fails.
C11_FirstError ==
    built.ret # "none" =>
        IF FirstError(content) # NoBuilt THEN built = FirstError(content)
        ELSE built.ret = "ok"

\* C11 on the constructions that return: the error or the font is the one
\* the pipeline order gives.
C11_WhenReturned ==
    built.ret \in {"ok", "err"} =>
        IF FirstError(content) # NoBuilt THEN built = FirstError(content)
        ELSE built.ret = "ok"

\* The file names of the page lines of the definition, in file order.
FilesInFileOrder(c) == [i \in 1..Len(PageGroup(c)) |-> PageNew(PageGroup(c)[i]).page.file]

\* C12: every invocation of pages() on a constructed font yields the file
\* name of each page line, in the order of the lines in the file, and then
\* ends; a second invocation yields the same sequence from the start.
C12_PagesInFileOrder ==
    pager.calls > 0 =>
        /\ Len(pager.out) <= Len(PageGroup(content))
        /\ pager.out = SubSeq(FilesInFileOrder(content), 1, Len(pager.out))
        /\ pager.done => pager.out = FilesInFileOrder(content)

\* The second invocation of pages() ended after two file names, of two page
\* lines whose ids descend in the file.
C12_Witness ==
    /\ pager.calls = 2
    /\ pager.done
    /\ Len(pager.out) = 2
    /\ built.font.pages[1].id > built.font.pages[2].id

\* The glyph declared by the i-th line of the char group.
Declared(c, i) == CharNew(CharGroup(c)[i]).char

\* C14: the glyph table of a constructed font is strictly ascending by id,
\* has exactly the ids of the char lines, and holds for each id the metrics of
\* the first char line in file order that declares it.
C14_FirstDeclared ==
    built.ret = "ok" =>
        LET characters == built.font.characters
            n == Len(CharGroup(content))
        IN /\ \A i, j \in 1..Len(characters) : i < j => characters[i].id < characters[j].id
           /\ {characters[i].id : i \in 1..Len(characters)} = {Declared(content, k).id : k \in 1..n}
           /\ \A i \in 1..Len(characters) :
                 \E k \in 1..n :
                     /\ characters[i] = Declared(content, k)
                     /\ \A l \in 1..(k - 1) : Declared(content, l).id # characters[i].id

\* A font was constructed from three char lines: an id declared twice with
\* different metrics, and a smaller id declared after a larger one.
C14_Witness ==
    /\ built.ret = "ok"
    /\ Len(CharGroup(content)) = 3
    /\ \E k, l \in 1..3 :
          k < l /\ Declared(content, k).id = Declared(content, l).id /\ Declared(content, k) # Declared(content, l)
    /\ \E k, l \in 1..3 : k < l /\ Declared(content, k).id > Declared(content, l).id

\* C20: the first token of every line Sections::new puts in the page, char
\* and kerning groups is exactly "page", "char" and "kerning", and
\* BMFont::new never aborts on the section-tag assertion of a record parser.
C20_TagPrecondition ==
    built.ret # "none" =>
        /\ built.abort \notin {"expect", "assert_eq"}
        /\ SectionsNew(content).ret = "ok" =>
              /\ \A i \in 1..Len(SectionsNew(content).page_sections) : SectionsNew(content).page_sections[i][1] = TagPage
              /\ \A i \in 1..Len(SectionsNew(content).char_sections) : SectionsNew(content).char_sections[i][1] = TagChar
              /\ \A i \in 1..Len(SectionsNew(content).kerning_sections) : SectionsNew(content).kerning_sections[i][1] = TagKerning

\* ------------------------------------------------------------ page claims

\* C13: Page::new stores the value of the file component with exactly one
\* layer of surrounding double quotes removed: a value written "v" is stored
\* as v, also when v begins or ends with a double quote.
C13_OneLayer ==
    LET value == ValueOf(page_line[3])
    IN (new_page.ret = "ok" /\ Len(value) >= 2 /\ Head(value) = Quote /\ value[Len(value)] = Quote) =>
           new_page.page.file = SubSeq(value, 2, Len(value) - 1)

\* C13 for the values "v" whose v neither begins nor ends with a double quote.
C13_PlainValue ==
    LET value == ValueOf(page_line[3])
    IN (new_page.ret = "ok" /\ Len(value) >= 2 /\ Head(value) = Quote /\ value[Len(value)] = Quote
          /\ (Len(value) > 2 => value[2] # Quote /\ value[Len(value) - 1] # Quote)) =>
           new_page.page.file = SubSeq(value, 2, Len(value) - 1)

\* ---------------------------------------------------------- kerning claims

\* The kerning lines, in file order, of the definition the font was built from.
KerningFileOf(f) == CHOOSE kf \in KerningFiles : f.kerning_values \in BuildKerningValues(kf, <<>>)

\* How many times e occurs in s.
Count(s, e) == Cardinality({i \in 1..Len(s) : s[i] = e})

\* The entries yielded are exactly, as a multiset, the kerning lines of the
\* definition whose first is the id asked for.
YieldsAllOf(first_char_id) ==
    LET file == KerningFileOf(font)
        yielded == kerning_call.out
    IN /\ \A i \in 1..Len(yielded) : yielded[i].first_char_id = first_char_id
       /\ \A i \in 1..Len(file) :
             file[i].first_char_id = first_char_id => Count(yielded, file[i]) = Count(file, file[i])
       /\ \A i \in 1..Len(yielded) : Count(yielded, yielded[i]) = Count(file, yielded[i])

\* C15: for every first_char_id from 0 to 65535, find_kerning_values
\* completes without failure and yields exactly the multiset of the kerning
\* lines whose first is that id, nothing when there is none.
C15_AllOfKey ==
    /\ kerning_call.status # "panic"
    /\ kerning_call.status = "done" => YieldsAllOf(kerning_call.first_char_id)

\* C15 for the ids other than 0.
C15_NonZero ==
    kerning_call.first_char_id # 0 =>
        /\ kerning_call.status # "panic"
        /\ kerning_call.status = "done" => YieldsAllOf(kerning_call.first_char_id)

\* C16: when several kerning lines share first and second id, layout applies
\* to that pair of glyphs the amount of the line declared first in the file.
C16_FirstDeclaredAmount ==
    \A k \in 2..Len(out) :
        LET file == KerningFileOf(font)
            same == {i \in 1..Len(file) :
                        file[i].first_char_id = ghost[k - 1].id /\ file[i].second_char_id = ghost[k].id}
        IN (LineOf(k - 1) = LineOf(k) /\ Cardinality(same) >= 2) =>
               ghost[k].kerning = file[CHOOSE i \in same : \A j \in same : i <= j].value

\* ------------------------------------------------------ lazy layout claims

Alone(s) == RunFrom(font, s, parse_error, overflow_checks, ParseIterNew, <<>>)

IsPrefix(a, b) == Len(a) <= Len(b) /\ a = SubSeq(b, 1, Len(a))

\* What an iterator over s has yielded so far, and its status, agree with the
\* layout of s run alone over the font as it is now.
AsAlone(s, st, yielded) ==
    st \in {"iter", "done", "panic"} =>
        /\ IsPrefix(yielded, Alone(s).out)
        /\ st \in {"done", "panic"} => (yielded = Alone(s).out /\ st = Alone(s).end)

MaxValue(min, size) == WideAdd(WideAdd(min, size), Wide(0, -1))

\* C19: for x, y in i32 and width, height in u32, max_x() returns x + width - 1
\* and max_y() returns y + height - 1, without wrap-around or failure.
C19_MaxIsExact ==
    /\ max.x # "none" => (max.x = "ok" /\ max.max_x = MaxValue(rect.x, rect.width))
    /\ max.y # "none" => (max.y = "ok" /\ max.max_y = MaxValue(rect.y, rect.height))

\* C19 for the rects whose size is below 2^31 and whose min + size is within i32.
C19_SmallRects ==
    /\ (max.x # "none" /\ rect.width.hi < 32768 /\ InI32(WideAdd(rect.x, rect.width))
          /\ InI32(MaxValue(rect.x, rect.width))) =>
           (max.x = "ok" /\ max.max_x = MaxValue(rect.x, rect.width))
    /\ (max.y # "none" /\ rect.height.hi < 32768 /\ InI32(WideAdd(rect.y, rect.height))
          /\ InI32(MaxValue(rect.y, rect.height))) =>
           (max.y = "ok" /\ max.max_y = MaxValue(rect.y, rect.height))

\* ------------------------------------------------------ cursor and ending

\* C21: at every boundary of a next() call exactly one of ParseIter.line and
\* LineIter.text is present, so the unwrap of the cursor in LineIter::next
\* never fails; the cursor handed back at the end of the last line stands at
\* the end of the text, and the characters the elements came from are the
\* resolvable characters in text order, none twice and none skipped.
C21_CursorOwnership ==
    status \in {"iter", "done", "panic"} =>
        /\ iter.line_some <=> ~iter.lines_text_some
        /\ status = "done" => (iter.lines_text_some /\ iter.lines_text = Len(text))
        /\ Len(out) <= Len(ResolvedIndices(font, text, 0))
        /\ [k \in 1..Len(out) |-> ghost[k].src] = SubSeq(ResolvedIndices(font, text, 0), 1, Len(out))

\* next() returned the first element of the second line: the cursor was
\* handed back at the end of the first line and taken again.
C21_Witness ==
    /\ status = "iter"
    /\ Len(out) = 2
    /\ ghost[1].src = 0
    /\ text[2] = NewLine
    /\ ghost[2].src = 2
    /\ iter.line_some
    /\ ~iter.lines_text_some

\* The text has a character with a glyph of id 0 and the build checks
\* integer overflow: the lookup of the kerning entries of that glyph fails.
NulGlyphFails ==
    overflow_checks /\ Resolves(font, 0) /\ \E i \in 1..Len(text) : text[i] = 0

\* C22: every next() call on the layout iterator returns; None is returned
\* after at most Len(text) + 1 calls, each earlier call having returned one
\* element; in strict mode the glyph lookup never fails for a validated text.
C22_EveryCallReturns ==
    /\ status # "panic"
    /\ Len(out) <= Len(text)

\* C22 for the layouts in which the kerning lookup of glyph 0 cannot fail.
C22_WithoutNulGlyph ==
    ~NulGlyphFails =>
        /\ status # "panic"
        /\ Len(out) <= Len(text)

\* C22, after the end: once next() has returned None every later call
\* returns None and leaves the iterator and the output as they are.
C22_StaysDone ==
    status = "done" =>
        LET r == ParseIterNext(font, text, parse_error, overflow_checks, iter)
        IN r.ret = "none" /\ r.self = iter

====
